---- MODULE Spec2Model ----
(***************************************************************************)
(* Batch job orchestrator of the Creator Studio (BatchPage) and the result *)
(* lifecycle of the single-image page (Page).                              *)
(*                                                                         *)
(* React state is modelled as it is executed in a production build:        *)
(*   - `jobs` is the committed value of the useState hook;                 *)
(*   - `queue` is the hook's pending update queue.  A handler that runs    *)
(*     from a promise continuation or an EventSource callback only         *)
(*     enqueues its updaters; they run, in order, at the next render       *)
(*     (action Render).  Updaters enqueued while the queue is processed    *)
(*     (startJob called from the scheduleNext updater) are appended and    *)
(*     processed by the same render;                                       *)
(*   - a user event handler runs on the rendered (committed) state and     *)
(*     React flushes its updates before the next event, so a user action   *)
(*     is one step: enqueue, then flush;                                   *)
(*   - startingRef is a ref: it is read and written immediately.           *)
(***************************************************************************)
EXTENDS Integers, Sequences, FiniteSets, TLC

\* ---------------------------------------------------------------- bounds
MaxJobs == 4        \* job ids ever created
MaxList == 2        \* files in one FileList
MaxExtra == 1       \* user/environment perturbations besides the main flow
MaxPageRuns == 3    \* handleContinue calls on the single-image page
MaxClicks == 3      \* selection and publish clicks
MaxPubJobs == 2     \* jobs submitted in a behaviour with such clicks
MaxBurst == 5       \* files of one drop in the completion-burst behaviours

\* ------------------------------------------------------ program constants
ACCEPTED_TYPES == {"image/jpeg", "image/png", "image/webp"}
MAX_BYTES == 15728640
CONCURRENCY == 3

VARIABLES
  jobs,         \* useState<Job[]>: committed job list
  queue,        \* pending setJobs updaters, in call order
  startingRef,  \* useRef<Set<string>>: ids guarded against a second start
  options,      \* useState<Options>
  autoPublish,  \* useState<"off" | "draft">
  runs,         \* one entry per startJob call that passed the guards:
                \*   the closure's rid, EventSource, AbortController, the
                \*   captured render environment and the position of the
                \*   async function
  parsed,       \* ParsedPackage objects returned by parseProcessZip
  live,         \* blob URL store: object URLs created and not yet revoked
  net,          \* remote calls issued so far
  page,         \* state of the single-image Page
  nextId,       \* next fresh job id
  extra,        \* perturbations used so far
  rejected,     \* validation errors addFiles has reported (toast.error)
  selected,     \* useState<Set<string>>: selected job ids
  pubs,         \* one entry per publishDraftFromParsed call of onPublish or
                \*   bulkPublishDrafts: its job, its package, its position
  bulks,        \* one entry per bulkPublishDrafts call: its closure
                \*   (selected, publishable), its counters ok and ko, its position
  clicks,       \* selection and publish clicks used so far
  mounted       \* BatchPage is mounted

vars == <<jobs, queue, startingRef, options, autoPublish, runs, parsed, live,
          net, page, nextId, extra, rejected, selected, pubs, bulks, clicks, mounted>>

\* ------------------------------------------------------------ input sets
Null == "null"
DefaultOptions == [mockups |-> TRUE, video |-> TRUE, texts |-> TRUE]
OptionChoices == {DefaultOptions, [mockups |-> FALSE, video |-> FALSE, texts |-> FALSE]}
FileTypes == {"image/jpeg", "image/png", "image/webp", "image/gif"}
FileSizes == {MAX_BYTES, MAX_BYTES + 1}
Files == [type : FileTypes, size : FileSizes]
PlainFile == [type |-> "image/png", size |-> MAX_BYTES]
FileLists == UNION { [1..n -> Files] : n \in 1..MaxList }
\* The answers /api/process can give: 2xx, 499, or another status whose JSON
\* body has a detail string or no readable detail; NoResponse when fetch
\* rejects because the signal was aborted.
NoResponse == [status |-> 0, detail |-> Null]
Responses ==
  { NoResponse, [status |-> 200, detail |-> Null], [status |-> 499, detail |-> Null],
    [status |-> 500, detail |-> Null], [status |-> 500, detail |-> "Out of memory"] }
Bundles == {"full", "noimage", "corrupt"}
StepNames == {"image", "thumbs"}
StepStates == {"done"}
Terminal == {"done", "error", "cancelled"}

\* ---------------------------------------------------------- pure helpers
Min(a, b) == IF a < b THEN a ELSE b
Max(a, b) == IF a > b THEN a ELSE b
Range(s) == { s[i] : i \in DOMAIN s }
\* Variant of slice: the last n elements instead of the first n.
sliceFromEnd(s, n) == SubSeq(s, Len(s) - Min(n, Len(s)) + 1, Len(s))
slice(s, n) == SubSeq(s, 1, Min(n, Len(s)))

computeSteps(opts) ==
  <<"image">>
    \o (IF opts.mockups THEN <<"mockups">> ELSE <<>>)
    \o (IF opts.video THEN <<"video">> ELSE <<>>)
    \o (IF opts.texts THEN <<"texts">> ELSE <<>>)
    \o <<"zip">>

\* Variant of validate: the size limit itself is refused.
validateStrict(file) ==
  IF file.type \notin ACCEPTED_TYPES THEN "Types acceptes: JPG, PNG, WEBP."
  ELSE IF file.size >= MAX_BYTES THEN "Image trop lourde (max 15 Mo)."
  ELSE Null
validate(file) ==
  IF file.type \notin ACCEPTED_TYPES THEN "Types acceptes: JPG, PNG, WEBP."
  ELSE IF file.size > MAX_BYTES THEN "Image trop lourde (max 15 Mo)."
  ELSE Null

\* The Job object addFiles pushes for an accepted file.
NewJob(id, f, opts) ==
  [ id |-> id, file |-> f, status |-> "queued", rid |-> 0,
    stepOrder |-> computeSteps(opts),
    stepStatus |-> [k \in Range(computeSteps(opts)) |-> "pending"],
    es |-> 0, controller |-> 0, result |-> 0, zip |-> FALSE,
    error |-> Null, publish |-> "idle" ]

Ids(js) == { js[i].id : i \in DOMAIN js }
IsQueued(j) == j.status = "queued"
IsRunning(j) == j.status = "running"
NumRunning(js) == Len(SelectSeq(js, IsRunning))
JobOf(js, id) == js[CHOOSE i \in DOMAIN js : js[i].id = id]

\* ------------------------------------------------- setJobs updaters (pure)
\* Variant of Patch: the error update writes the message and leaves the
\* status alone.
PatchErrorKeepsStatus(u, j) ==
  CASE u.op = "status" -> [j EXCEPT !.status = u.v]
    [] u.op = "init" ->
         [j EXCEPT !.rid = u.rid, !.controller = u.rid,
                   !.stepStatus = IF "image" \in Range(j.stepOrder)
                                  THEN [k \in DOMAIN @ \cup {"image"} |-> IF k = "image" THEN "started" ELSE @[k]]
                                  ELSE @]
    [] u.op = "es" -> [j EXCEPT !.es = u.rid]
    [] u.op = "step" ->
         [j EXCEPT !.stepStatus = [k \in DOMAIN @ \cup {u.step} |-> IF k = u.step THEN u.v ELSE @[k]]]
    [] u.op = "done" -> [j EXCEPT !.zip = TRUE, !.result = u.res, !.status = "done"]
    [] u.op = "error" -> [j EXCEPT !.error = u.msg]
    [] u.op = "publish" -> [j EXCEPT !.publish = u.v]
\* The object each setJobs call site builds from j: { ...j, <fields> }
Patch(u, j) ==
  CASE u.op = "status" -> [j EXCEPT !.status = u.v]
    [] u.op = "init" ->
         [j EXCEPT !.rid = u.rid, !.controller = u.rid,
                   !.stepStatus = IF "image" \in Range(j.stepOrder)
                                  THEN [k \in DOMAIN @ \cup {"image"} |-> IF k = "image" THEN "started" ELSE @[k]]
                                  ELSE @]
    [] u.op = "es" -> [j EXCEPT !.es = u.rid]
    [] u.op = "step" ->
         [j EXCEPT !.stepStatus = [k \in DOMAIN @ \cup {u.step} |-> IF k = u.step THEN u.v ELSE @[k]]]
    [] u.op = "done" -> [j EXCEPT !.zip = TRUE, !.result = u.res, !.status = "done"]
    [] u.op = "error" -> [j EXCEPT !.status = "error", !.error = u.msg]
    [] u.op = "publish" -> [j EXCEPT !.publish = u.v]
\* bulkPublishDrafts: prev.map((j) => selected.has(j.id) && j.result ?
\*                                   { ...j, publish: { status: 'pending' } } : j)
MarkPending(js, sel) ==
  [i \in DOMAIN js |-> IF js[i].id \in sel /\ js[i].result # 0
                       THEN [js[i] EXCEPT !.publish = "pending"] ELSE js[i]]
\* prev.map((j) => (j.id === id ? <patched j> : j))
MapJob(js, id, u) == [i \in DOMAIN js |-> IF js[i].id = id THEN Patch(u, js[i]) ELSE js[i]]

\* Variant of capacityOf: one slot too many.
capacityOffByOne(js, ref) ==
  Max(0, CONCURRENCY + 1 - Max(NumRunning(js), Cardinality(ref)))
\* Free slots: CONCURRENCY less the larger of the running count and the size
\* of the in-start guard set.
capacityOf(js, ref) ==
  LET running == NumRunning(js)
      active == Max(running, Cardinality(ref))
  IN Max(0, CONCURRENCY - active)

\* --------------------------------------------------------------- startJob
\* S is the mutable world a handler sees: [jobs, queue, ref, runs, net].
\* env is the render environment captured by the closure that runs startJob:
\* its options and its autoPublish.  The closure's `jobs` is the list of the
\* render that created it; no update ever sets a status back to "queued", so a
\* job that is queued in the latest list is queued or absent in the closure's
\* list, and the "double-check" reads the same either way.
\* A run's `gone` records that resetAll ran after it was started and its
\* `resp` the answer its request got; no handler reads them.  A scheduleNext update records in `by` the run whose closure
\* called it.
NewRun(id, env) ==
  [ id |-> id, pc |-> "fetch", es |-> "open", aborted |-> FALSE, env |-> env,
    err |-> Null, gone |-> FALSE, resp |-> NoResponse ]

\* Variant of startJob: without the idempotency guard and the double-check.
startJobUnguarded(S, job, env) ==
  LET rid == Len(S.runs) + 1 IN
  [S EXCEPT !.ref = @ \cup {job.id},
            !.queue = @ \o << [op |-> "status", id |-> job.id, v |-> "running"],
                              [op |-> "init", id |-> job.id, rid |-> rid],
                              [op |-> "es", id |-> job.id, rid |-> rid] >>,
            !.runs = Append(@, NewRun(job.id, env)),
            !.net = [@ EXCEPT !.stream = @ + 1, !.process = @ + 1]]
\* Variant of startJob: the request id is a constant instead of a fresh one.
startJobFixedRid(S, job, env) ==
  IF job.id \in S.ref THEN S
  ELSE IF \E i \in DOMAIN S.jobs : S.jobs[i].id = job.id /\ S.jobs[i].status # "queued" THEN S
  ELSE [S EXCEPT !.ref = @ \cup {job.id},
                 !.queue = @ \o << [op |-> "status", id |-> job.id, v |-> "running"],
                                   [op |-> "init", id |-> job.id, rid |-> 1],
                                   [op |-> "es", id |-> job.id, rid |-> 1] >>,
                 !.runs = Append(@, NewRun(job.id, env)),
                 !.net = [@ EXCEPT !.stream = @ + 1, !.process = @ + 1]]
startJob(S, job, env) ==
  IF job.id \in S.ref THEN S
  ELSE IF \E i \in DOMAIN S.jobs : S.jobs[i].id = job.id /\ S.jobs[i].status # "queued" THEN S
  ELSE LET rid == Len(S.runs) + 1 IN
       [S EXCEPT !.ref = @ \cup {job.id},
                 !.queue = @ \o << [op |-> "status", id |-> job.id, v |-> "running"],
                                   [op |-> "init", id |-> job.id, rid |-> rid],
                                   [op |-> "es", id |-> job.id, rid |-> rid] >>,
                 !.runs = Append(@, NewRun(job.id, env)),
                 !.net = [@ EXCEPT !.stream = @ + 1, !.process = @ + 1]]

RECURSIVE forEachStart(_, _, _)
forEachStart(S, toStart, env) ==
  IF toStart = <<>> THEN S
  ELSE forEachStart(startJob(S, Head(toStart), env), Tail(toStart), env)

\* The updater scheduleNext passes to setJobs; it returns prev unchanged.
scheduleNext(S, env) ==
  LET running == NumRunning(S.jobs)
      queued == SelectSeq(S.jobs, IsQueued)
      active == Max(running, Cardinality(S.ref))
      capacity == Max(0, CONCURRENCY - active)
      toStart == slice(queued, capacity)
  IN forEachStart(S, toStart, env)

\* One render: the pending updaters run in order on the latest state.
RECURSIVE Flush(_)
Flush(S) ==
  IF S.queue = <<>> THEN S
  ELSE LET u == Head(S.queue)
           T == [S EXCEPT !.queue = Tail(@)]
       IN Flush(IF u.op = "sched" THEN scheduleNext(T, u.env)
                ELSE IF u.op = "bulkpending" THEN [T EXCEPT !.jobs = MarkPending(@, u.sel)]
                ELSE [T EXCEPT !.jobs = MapJob(@, u.id, u)])

World == [jobs |-> jobs, queue |-> queue, ref |-> startingRef, runs |-> runs, net |-> net]
Commit(S) ==
  /\ jobs' = S.jobs
  /\ queue' = S.queue
  /\ startingRef' = S.ref
  /\ runs' = S.runs
  /\ net' = S.net
Env == [options |-> options, autoPublish |-> autoPublish]

\* --------------------------------------------- the single-image Page
\* results: the ParsedPackage in useState (0 for null); effect: the results
\* value whose cleanup the [results] effect currently holds; req: one entry
\* per handleContinue call (position of its async body, its controller);
\* abortRef: the controller in abortRef.current (0 for null); calls: how often
\* release() was called on each package.
PageMounted ==
  [ mounted |-> TRUE, selectedImage |-> FALSE, isProcessing |-> FALSE,
    results |-> 0, effect |-> 0, req |-> <<>>, abortRef |-> 0,
    calls |-> [r \in 1..MaxPageRuns |-> 0] ]

\* ------------------------------------------------------------------- Init
Init ==
  /\ jobs = <<>>
  /\ queue = <<>>
  /\ startingRef = {}
  /\ options = DefaultOptions
  /\ autoPublish = "off"
  /\ runs = <<>>
  /\ parsed = [r \in 1..Max(MaxJobs, MaxPageRuns) |-> Null]
  /\ live = {}
  /\ net = [stream |-> 0, process |-> 0, abort |-> 0]
  /\ page = PageMounted
  /\ nextId = 1
  /\ extra = 0
  /\ rejected = 0
  /\ selected = {}
  /\ pubs = <<>>
  /\ bulks = <<>>
  /\ clicks = 0
  /\ mounted = TRUE

\* A step off the plain flow (submit, start, 2xx answer, complete bundle,
\* render) spends one unit of the perturbation budget.  A behaviour explores
\* either perturbations of the processing flow or selection and publish
\* clicks on an unperturbed flow.
Spend(off) == extra' = IF off THEN extra + 1 ELSE extra
CanSpend(off) == off => (extra < MaxExtra /\ clicks = 0)
Click == clicks' = clicks + 1
CanClick == clicks < MaxClicks /\ extra = 0 /\ nextId - 1 <= MaxPubJobs
PubFrame == UNCHANGED <<selected, pubs, bulks, clicks, mounted>>

\* ------------------------------------------------------ user: addFiles
RECURSIVE added(_, _, _)
added(list, id, opts) ==
  IF list = <<>> THEN <<>>
  ELSE IF validate(Head(list)) # Null THEN added(Tail(list), id, opts)
  ELSE <<NewJob(id, Head(list), opts)>> \o added(Tail(list), id + 1, opts)

\* toast.error(`${f.name}: ${err}`): one for every rejected file
errors(list) == Cardinality({ i \in DOMAIN list : validate(list[i]) # Null })

addFiles(list) ==
  /\ mounted /\ queue = <<>>
  /\ nextId + Len(added(list, nextId, options)) - 1 <= (IF clicks > 0 THEN MaxPubJobs ELSE MaxJobs)
  /\ jobs' = jobs \o added(list, nextId, options)
  /\ nextId' = nextId + Len(added(list, nextId, options))
  /\ rejected' = rejected + errors(list)
  /\ CanSpend(Range(list) # {PlainFile})
  /\ Spend(Range(list) # {PlainFile})
  /\ PubFrame
  /\ UNCHANGED <<queue, startingRef, options, autoPublish, runs, parsed, live,
                 net, page>>

\* ---------------------------------------------------- user: startQueued
startQueued ==
  /\ mounted /\ queue = <<>>
  /\ LET capacity == capacityOf(jobs, startingRef)
         toStart == slice(SelectSeq(jobs, IsQueued), capacity)
     IN Commit(Flush(IF capacity <= 0 THEN World ELSE forEachStart(World, toStart, Env)))
  /\ PubFrame
  /\ UNCHANGED <<options, autoPublish, parsed, live, page, nextId, extra, rejected>>

\* -------------------------------------------------------------- render
Render ==
  /\ mounted /\ queue # <<>>
  /\ Commit(Flush(World))
  /\ PubFrame
  /\ UNCHANGED <<options, autoPublish, parsed, live, page, nextId, extra, rejected>>

\* ------------------------------------------- objects reached by reference
close(rs, e) == IF e = 0 THEN rs ELSE [rs EXCEPT ![e].es = "closed"]
\* Variant of abort: the controller is left alone.
abortSkipped(rs, c) == rs
abort(rs, c) == IF c = 0 THEN rs ELSE [rs EXCEPT ![c].aborted = TRUE]
\* Variant of release: the first URL of the package is not revoked.
releaseButFirst(lv, res) ==
  IF res = 0 \/ parsed[res].urls = <<>> THEN lv ELSE lv \ Range(Tail(parsed[res].urls))
\* ParsedPackage.release: revokeObjectURL on every URL the parse created;
\* revoking removes the URL from the blob URL store if it is still there.
release(lv, res) == IF res = 0 THEN lv ELSE lv \ Range(parsed[res].urls)
\* abortProcess(rid): POST /api/process/abort.  The answer (2xx, non-2xx, a
\* network error, or none at all) is swallowed by its try/catch and by the
\* caller's .catch(() => {}); the batch page never awaits it.
AbortAnswers == {"ok", "failed", "never"}
abortProcess(n, rid, answer) == IF rid = 0 THEN n ELSE [n EXCEPT !.abort = @ + 1]

\* ------------------------------------------- startJob: the async function
\* finally { es.close(); startingRef.current.delete(id) }
Finally(S, r) ==
  [S EXCEPT !.runs = [close(@, r) EXCEPT ![r].pc = "end"],
            !.ref = @ \ {S.runs[r].id}]

\* catch (err): AbortError / "Cancelled" -> cancelled, otherwise error; then
\* scheduleNext(); then finally.
IsCancellation(err) == err \in {"AbortError", "Cancelled"}
\* Variant of Catch: the outcome is written to the first job of the list.
CatchFirstJob(S, r, err) ==
  LET id == IF S.jobs = <<>> THEN S.runs[r].id ELSE S.jobs[1].id
      u == IF IsCancellation(err) THEN [op |-> "status", id |-> id, v |-> "cancelled"]
           ELSE [op |-> "error", id |-> id, msg |-> err]
  IN Finally([S EXCEPT !.queue = @ \o <<u, [op |-> "sched", env |-> S.runs[r].env, by |-> r]>>,
                       !.runs[r].err = err], r)
\* (err is the value the closure caught)
Catch(S, r, err) ==
  LET id == S.runs[r].id
      u == IF IsCancellation(err) THEN [op |-> "status", id |-> id, v |-> "cancelled"]
           ELSE [op |-> "error", id |-> id, msg |-> err]
  IN Finally([S EXCEPT !.queue = @ \o <<u, [op |-> "sched", env |-> S.runs[r].env, by |-> r]>>,
                       !.runs[r].err = err], r)

\* processImage settles.  A live request answers 2xx, 499 or another status;
\* an aborted one rejects with AbortError, or, when the abort lands while the
\* body of a non-2xx answer is being read, with "Request failed (status)".
FetchOutcomes(run) == IF run.aborted THEN {"AbortError", "Request failed"}
                      ELSE {"ok", "Cancelled", "Request failed"}

\* What the `catch {}` around the body read of a non-2xx answer rethrows for
\* the value thrown inside its try block: always the status-based message.
rethrown(thrown) == "Request failed"

\* processImage: its result ("ok") or the message of the Error it throws.
\* For a non-2xx, non-499 answer the try block throws Error(detail), or
\* res.json() rejects; both land in the catch of the same try statement.
processImage(resp) ==
  IF resp = NoResponse THEN "AbortError"
  ELSE IF resp.status = 200 THEN "ok"
  ELSE IF resp.status = 499 THEN "Cancelled"
  ELSE rethrown(IF resp.detail # Null THEN resp.detail ELSE "Unexpected end of JSON input")

processImageSettles(r, resp) ==
  /\ r \in DOMAIN runs
  /\ runs[r].pc = "fetch"
  /\ resp \in Responses
  /\ processImage(resp) \in FetchOutcomes(runs[r])
  /\ CanSpend(processImage(resp) \in {"Cancelled", "Request failed"})
  /\ Spend(processImage(resp) \in {"Cancelled", "Request failed"})
  /\ LET outcome == processImage(resp)
         W == [World EXCEPT !.runs[r].resp = resp]
     IN Commit(IF outcome = "ok" THEN [W EXCEPT !.runs = [@ EXCEPT ![r].pc = "parse"]]
               ELSE Catch(W, r, outcome))
  /\ PubFrame
  /\ UNCHANGED <<options, autoPublish, parsed, live, page, nextId, rejected>>

\* parseProcessZip on the returned blob: the object URLs it creates, in the
\* order they are pushed on urlsToRevoke.
parseProcessZip(bundle, k) ==
  [ urls |-> (IF bundle = "full" THEN << <<k, "image">> >> ELSE <<>>) \o << <<k, "mockup">> >>,
    processedImageUrl |-> bundle = "full" ]

\* The code after `await parseProcessZip(blob)` up to the next suspension.
AfterParse(S, r, res, hasImage) ==
  LET id == S.runs[r].id
      env == S.runs[r].env
      S1 == [S EXCEPT !.queue = @ \o << [op |-> "done", id |-> id, res |-> res],
                                        [op |-> "sched", env |-> env, by |-> r] >>]
      S2 == [S1 EXCEPT !.queue = @ \o << [op |-> "publish", id |-> id, v |-> "pending"] >>]
  IN IF env.autoPublish # "draft" THEN Finally(S1, r)
     ELSE IF ~hasImage
          THEN Finally([S2 EXCEPT !.queue = @ \o << [op |-> "publish", id |-> id, v |-> "error"] >>], r)
          ELSE [S2 EXCEPT !.runs = [@ EXCEPT ![r].pc = "publish"]]

parseSettles(r, bundle) ==
  /\ r \in DOMAIN runs
  /\ runs[r].pc = "parse"
  /\ bundle \in Bundles
  /\ CanSpend(bundle # "full")
  /\ Spend(bundle # "full")
  /\ IF bundle = "corrupt"
     THEN /\ Commit(Catch(World, r, "Corrupted zip"))
          /\ UNCHANGED <<parsed, live>>
     ELSE LET out == parseProcessZip(bundle, r)
          IN /\ parsed' = [parsed EXCEPT ![r] = out]
             /\ live' = live \cup Range(out.urls)
             /\ Commit(AfterParse(World, r, r, out.processedImageUrl))
  /\ PubFrame
  /\ UNCHANGED <<options, autoPublish, page, nextId, rejected>>

\* publishDraftFromParsed (auto-publish) settles.
autoPublishSettles(r, ok) ==
  /\ r \in DOMAIN runs
  /\ runs[r].pc = "publish"
  /\ CanSpend(~ok)
  /\ Spend(~ok)
  /\ Commit(Finally([World EXCEPT !.queue = @ \o
         << [op |-> "publish", id |-> runs[r].id, v |-> IF ok THEN "done" ELSE "error"] >>], r))
  /\ PubFrame
  /\ UNCHANGED <<options, autoPublish, parsed, live, page, nextId, rejected>>

\* ------------------------------------------------------ user: cancelJob
\* Variant of cancellable: queued jobs are cancelled as well.
cancellableOrQueued(j) == j.status \in {"running", "queued"}
\* if (!j || j.status !== "running" || !j.rid) return prev
cancellable(j) == j.status = "running" /\ j.rid # 0

cancelJob(id, answer) ==
  /\ mounted /\ queue = <<>>
  /\ CanSpend(TRUE)
  /\ Spend(TRUE)
  /\ id \in Ids(jobs)
  /\ LET j == JobOf(jobs, id) IN
     IF ~cancellable(j)
     THEN UNCHANGED <<jobs, queue, startingRef, runs, net>>
     ELSE /\ net' = abortProcess(net, j.rid, answer)
          /\ runs' = abort(close(runs, j.es), j.controller)
          /\ startingRef' = startingRef \ {id}
          /\ jobs' = MapJob(jobs, id, [op |-> "status", v |-> "cancelled"])
          /\ queue' = queue
  /\ PubFrame
  /\ UNCHANGED <<options, autoPublish, parsed, live, page, nextId, rejected>>

\* ------------------------------------------------------ user: removeJob
removeJob(id, answer) ==
  /\ mounted /\ queue = <<>>
  /\ CanSpend(TRUE)
  /\ Spend(TRUE)
  /\ id \in Ids(jobs)
  /\ LET j == JobOf(jobs, id)
         rem == j.status = "running" /\ j.rid # 0
     IN /\ net' = IF rem THEN abortProcess(net, j.rid, answer) ELSE net
        /\ runs' = IF rem THEN abort(close(runs, j.es), j.controller) ELSE runs
        /\ live' = release(live, j.result)
        /\ startingRef' = startingRef \ {id}
        /\ jobs' = SelectSeq(jobs, LAMBDA x : x.id # id)
  /\ selected' = selected \ {id}
  /\ UNCHANGED <<pubs, bulks, clicks, mounted>>
  /\ UNCHANGED <<queue, options, autoPublish, parsed, page, nextId, rejected>>

\* ------------------------------------------------------- user: resetAll
RECURSIVE resetEach(_, _, _)
resetEach(W, js, answer) ==
  IF js = <<>> THEN W
  ELSE LET j == Head(js)
           rem == j.status = "running" /\ j.rid # 0
       IN resetEach([ net |-> IF rem THEN abortProcess(W.net, j.rid, answer) ELSE W.net,
                      runs |-> IF rem THEN abort(close(W.runs, j.es), j.controller) ELSE W.runs,
                      live |-> release(W.live, j.result) ], Tail(js), answer)

resetAll(answer) ==
  /\ mounted /\ queue = <<>>
  /\ CanSpend(TRUE)
  /\ Spend(TRUE)
  /\ LET W == resetEach([net |-> net, runs |-> runs, live |-> live], jobs, answer)
     IN /\ net' = W.net
        /\ runs' = [r \in DOMAIN W.runs |-> [W.runs[r] EXCEPT !.gone = TRUE]]
        /\ live' = W.live
  /\ jobs' = <<>>
  /\ startingRef' = {}
  /\ options' = DefaultOptions
  /\ autoPublish' = "off"
  /\ selected' = {}
  /\ UNCHANGED <<pubs, bulks, clicks, mounted>>
  /\ UNCHANGED <<queue, parsed, page, nextId, rejected>>

\* ---------------------------------------------------- leaving the page
\* The unmount effect calls setJobs with an updater that closes, aborts and
\* releases for every job and returns prev.  On a component that is being
\* unmounted the updater runs only if React evaluates it eagerly, which it
\* does not when updates are pending; afterwards nothing is rendered.
RECURSIVE cleanupEach(_, _)
cleanupEach(W, js) ==
  IF js = <<>> THEN W
  ELSE LET j == Head(js)
       IN cleanupEach([ runs |-> abort(close(W.runs, j.es), j.controller),
                        live |-> release(W.live, j.result) ], Tail(js))

unmount(ran) ==
  /\ mounted
  /\ CanSpend(TRUE)
  /\ Spend(TRUE)
  /\ ran => queue = <<>>
  /\ LET W == IF ran THEN cleanupEach([runs |-> runs, live |-> live], jobs)
              ELSE [runs |-> runs, live |-> live]
     IN runs' = W.runs /\ live' = W.live
  /\ mounted' = FALSE
  /\ UNCHANGED <<jobs, queue, startingRef, options, autoPublish, parsed, net, page,
                 nextId, rejected, selected, pubs, bulks, clicks>>

\* ------------------------------------------ user: options and auto-publish
setOptions(o) ==
  /\ mounted /\ queue = <<>>
  /\ CanSpend(TRUE)
  /\ Spend(TRUE)
  /\ o \in OptionChoices \ {options}
  /\ options' = o
  /\ PubFrame
  /\ UNCHANGED <<jobs, queue, startingRef, autoPublish, runs, parsed, live, net,
                 page, nextId, rejected>>

setAutoPublish(v) ==
  /\ mounted /\ queue = <<>>
  /\ CanSpend(TRUE)
  /\ Spend(TRUE)
  /\ v \in {"off", "draft"} \ {autoPublish}
  /\ autoPublish' = v
  /\ PubFrame
  /\ UNCHANGED <<jobs, queue, startingRef, options, runs, parsed, live, net,
                 page, nextId, rejected>>

\* ------------------------------------------------- progress stream events
\* es.onmessage with {event: "step", step, status}
onStep(r, step, status) ==
  /\ CanSpend(TRUE)
  /\ Spend(TRUE)
  /\ r \in DOMAIN runs
  /\ runs[r].es = "open"
  /\ step \in StepNames
  /\ status \in StepStates
  /\ queue' = Append(queue, [op |-> "step", id |-> runs[r].id, step |-> step, v |-> status])
  /\ PubFrame
  /\ UNCHANGED <<jobs, startingRef, options, autoPublish, runs, parsed, live, net,
                 page, nextId, rejected>>

\* Variant of onDone: the stream's done event also marks the job done.
onDoneFinishes(r) ==
  /\ CanSpend(TRUE)
  /\ Spend(TRUE)
  /\ r \in DOMAIN runs
  /\ runs[r].es = "open"
  /\ runs' = close(runs, r)
  /\ queue' = Append(queue, [op |-> "status", id |-> runs[r].id, v |-> "done"])
  /\ PubFrame
  /\ UNCHANGED <<jobs, startingRef, options, autoPublish, parsed, live, net,
                 page, nextId, rejected>>
\* es.onmessage with {event: "done"}
onDone(r) ==
  /\ CanSpend(TRUE)
  /\ Spend(TRUE)
  /\ r \in DOMAIN runs
  /\ runs[r].es = "open"
  /\ runs' = close(runs, r)
  /\ PubFrame
  /\ UNCHANGED <<jobs, queue, startingRef, options, autoPublish, parsed, live, net,
                 page, nextId, rejected>>

\* The stream's transport fails for good (readyState CLOSED); es.onerror is
\* an empty handler.
onError(r) ==
  /\ CanSpend(TRUE)
  /\ Spend(TRUE)
  /\ r \in DOMAIN runs
  /\ runs[r].es = "open"
  /\ runs' = [runs EXCEPT ![r].es = "failed"]
  /\ PubFrame
  /\ UNCHANGED <<jobs, queue, startingRef, options, autoPublish, parsed, live, net,
                 page, nextId, rejected>>

\* ----------------------------------------------------- user: selection
BatchFrame == UNCHANGED <<startingRef, options, autoPublish, runs, parsed, live, net,
                          page, nextId, extra, rejected, mounted>>

toggleSelect(id) ==
  /\ mounted /\ queue = <<>>
  /\ CanClick /\ Click
  /\ id \in Ids(jobs)
  /\ selected' = IF id \in selected THEN selected \ {id} ELSE selected \cup {id}
  /\ UNCHANGED <<jobs, queue, pubs, bulks>>
  /\ BatchFrame

\* "Tout selectionner", shown while something is selected
selectAll ==
  /\ mounted /\ queue = <<>>
  /\ CanClick /\ Click
  /\ selected # {}
  /\ selected' = Ids(jobs)
  /\ UNCHANGED <<jobs, queue, pubs, bulks>>
  /\ BatchFrame

\* ------------------------------------------------------------- publishing
\* publishDraftFromParsed can resolve only if the package has its processed
\* image and the image's object URL can still be fetched.
PublishOutcomes(res) ==
  IF parsed[res].processedImageUrl /\ <<res, "image">> \in live THEN BOOLEAN ELSE {FALSE}

\* JobCard "Etsy" button: shown for a done job, disabled without a result or
\* while publish.status is pending.  The handler up to `await p`.
onPublish(id) ==
  /\ mounted /\ queue = <<>>
  /\ CanClick /\ Click
  /\ id \in Ids(jobs)
  /\ LET j == JobOf(jobs, id) IN
       /\ j.status = "done" /\ j.result # 0 /\ j.publish # "pending"
       /\ jobs' = MapJob(jobs, id, [op |-> "publish", v |-> "pending"])
       /\ pubs' = Append(pubs, [id |-> id, res |-> j.result, b |-> 0, pc |-> "call"])
  /\ UNCHANGED <<queue, selected, bulks>>
  /\ BatchFrame

\* onPublish after `await p`
onPublishSettles(p, ok) ==
  /\ p \in DOMAIN pubs
  /\ pubs[p].pc = "call" /\ pubs[p].b = 0
  /\ ok \in PublishOutcomes(pubs[p].res)
  /\ queue' = Append(queue, [op |-> "publish", id |-> pubs[p].id,
                             v |-> IF ok THEN "done" ELSE "error"])
  /\ pubs' = [pubs EXCEPT ![p].pc = IF ok THEN "ok" ELSE "ko"]
  /\ UNCHANGED <<jobs, selected, bulks, clicks>>
  /\ BatchFrame

\* "Publier en Draft", enabled while a selected job has a result.  The
\* handler up to `await etsyConnected()`.
publishable(js, sel) ==
  LET with == SelectSeq(js, LAMBDA j : j.id \in sel /\ j.result # 0)
  IN [i \in DOMAIN with |-> [id |-> with[i].id, res |-> with[i].result]]

bulkPublishDrafts ==
  /\ mounted /\ queue = <<>>
  /\ CanClick /\ Click
  /\ selected # {}
  /\ publishable(jobs, selected) # <<>>
  /\ bulks' = Append(bulks, [pc |-> "auth", sel |-> selected,
                             items |-> publishable(jobs, selected), ok |-> 0, ko |-> 0])
  /\ UNCHANGED <<jobs, queue, selected, pubs>>
  /\ BatchFrame

\* bulkPublishDrafts after `await etsyConnected()`: return if not connected,
\* otherwise mark pending and start one publish call per publishable job.
etsyConnectedSettles(b, connected) ==
  /\ b \in DOMAIN bulks
  /\ bulks[b].pc = "auth"
  /\ IF ~connected
     THEN /\ bulks' = [bulks EXCEPT ![b].pc = "refused"]
          /\ UNCHANGED <<queue, pubs>>
     ELSE /\ bulks' = [bulks EXCEPT ![b].pc = "run"]
          /\ queue' = Append(queue, [op |-> "bulkpending", b |-> b, sel |-> bulks[b].sel])
          /\ pubs' = pubs \o [i \in DOMAIN bulks[b].items |->
                                [id |-> bulks[b].items[i].id, res |-> bulks[b].items[i].res,
                                 b |-> b, pc |-> "call"]]
  /\ UNCHANGED <<jobs, selected, clicks>>
  /\ BatchFrame

\* Variant of counted: a failure is not counted.
countedOkOnly(bk, ok, last) ==
  [bk EXCEPT !.ok = IF ok THEN @ + 1 ELSE @, !.pc = IF last THEN "end" ELSE @]
\* try { ...; ok++ } catch { ko++ }, and the end of Promise.allSettled
counted(bk, ok, last) ==
  [bk EXCEPT !.ok = IF ok THEN @ + 1 ELSE @,
             !.ko = IF ok THEN @ ELSE @ + 1,
             !.pc = IF last THEN "end" ELSE @]

\* One member of Promise.allSettled settles: ok++ or ko++ and its patch; when
\* it is the last one, the summary toast.
bulkItemSettles(p, ok) ==
  /\ p \in DOMAIN pubs
  /\ pubs[p].pc = "call" /\ pubs[p].b # 0
  /\ ok \in PublishOutcomes(pubs[p].res)
  /\ queue' = Append(queue, [op |-> "publish", id |-> pubs[p].id,
                             v |-> IF ok THEN "done" ELSE "error"])
  /\ pubs' = [pubs EXCEPT ![p].pc = IF ok THEN "ok" ELSE "ko"]
  /\ LET b == pubs[p].b
         last == \A q \in DOMAIN pubs : (pubs[q].b = b /\ q # p) => pubs[q].pc # "call"
     IN bulks' = [bulks EXCEPT ![b] = counted(@, ok, last)]
  /\ UNCHANGED <<jobs, selected, clicks>>
  /\ BatchFrame

\* ------------------------------------------------------------------- Next
Next ==
  \/ \E list \in FileLists : addFiles(list)
  \/ startQueued
  \/ Render
  \/ \E r \in 1..MaxJobs, resp \in Responses : processImageSettles(r, resp)
  \/ \E r \in 1..MaxJobs, b \in Bundles : parseSettles(r, b)
  \/ \E r \in 1..MaxJobs, ok \in BOOLEAN : autoPublishSettles(r, ok)
  \/ \E id \in 1..MaxJobs, a \in AbortAnswers : cancelJob(id, a)
  \/ \E id \in 1..MaxJobs, a \in AbortAnswers : removeJob(id, a)
  \/ \E a \in AbortAnswers : resetAll(a)
  \/ \E ran \in BOOLEAN : unmount(ran)
  \/ \E o \in OptionChoices : setOptions(o)
  \/ \E v \in {"off", "draft"} : setAutoPublish(v)
  \/ \E r \in 1..MaxJobs, k \in StepNames, v \in StepStates : onStep(r, k, v)
  \/ \E r \in 1..MaxJobs : onDone(r)
  \/ \E r \in 1..MaxJobs : onError(r)
  \/ \E id \in 1..MaxJobs : toggleSelect(id)
  \/ selectAll
  \/ \E id \in 1..MaxJobs : onPublish(id)
  \/ \E p \in DOMAIN pubs, ok \in BOOLEAN : onPublishSettles(p, ok)
  \/ bulkPublishDrafts
  \/ \E b \in DOMAIN bulks, c \in BOOLEAN : etsyConnectedSettles(b, c)
  \/ \E p \in DOMAIN pubs, ok \in BOOLEAN : bulkItemSettles(p, ok)

Spec == Init /\ [][Next]_vars

\* The batch page after the user switched "Publication Etsy" to
\* "Auto-publier en Draft" as the first thing on the fresh page.
DraftInit ==
  /\ jobs = <<>>
  /\ queue = <<>>
  /\ startingRef = {}
  /\ options = DefaultOptions
  /\ autoPublish = "draft"
  /\ runs = <<>>
  /\ parsed = [r \in 1..Max(MaxJobs, MaxPageRuns) |-> Null]
  /\ live = {}
  /\ net = [stream |-> 0, process |-> 0, abort |-> 0]
  /\ page = PageMounted
  /\ nextId = 1
  /\ extra = 0
  /\ rejected = 0
  /\ selected = {}
  /\ pubs = <<>>
  /\ bulks = <<>>
  /\ clicks = 0
  /\ mounted = TRUE

\* Processing with auto-publish on: submission, start, the continuations of
\* startJob, and the user's cancel, remove and reset.
DraftNext ==
  \/ \E list \in FileLists : addFiles(list)
  \/ startQueued
  \/ Render
  \/ \E r \in 1..MaxJobs, resp \in Responses : processImageSettles(r, resp)
  \/ \E r \in 1..MaxJobs, b \in Bundles : parseSettles(r, b)
  \/ \E r \in 1..MaxJobs, ok \in BOOLEAN : autoPublishSettles(r, ok)
  \/ \E id \in 1..MaxJobs, a \in AbortAnswers : cancelJob(id, a)
  \/ \E id \in 1..MaxJobs, a \in AbortAnswers : removeJob(id, a)
  \/ \E a \in AbortAnswers : resetAll(a)

DraftSpec == DraftInit /\ [][DraftNext]_vars
\* The batch page once n plain files were submitted in one drop and "Lancer
\* le traitement" was pressed: what addFiles and startQueued make of the
\* fresh page.
StartedWith(n) ==
  Flush(forEachStart([jobs |-> added([i \in 1..n |-> PlainFile], 1, DefaultOptions),
                      queue |-> <<>>, ref |-> {}, runs |-> <<>>,
                      net |-> [stream |-> 0, process |-> 0, abort |-> 0]],
                     slice(added([i \in 1..n |-> PlainFile], 1, DefaultOptions), CONCURRENCY),
                     [options |-> DefaultOptions, autoPublish |-> "off"]))
Started == StartedWith(MaxPubJobs)

StartedInit ==
  /\ jobs = Started.jobs
  /\ queue = Started.queue
  /\ startingRef = Started.ref
  /\ options = DefaultOptions
  /\ autoPublish = "off"
  /\ runs = Started.runs
  /\ parsed = [r \in 1..Max(MaxJobs, MaxPageRuns) |-> Null]
  /\ live = {}
  /\ net = Started.net
  /\ page = PageMounted
  /\ nextId = MaxPubJobs + 1
  /\ extra = 0
  /\ rejected = 0
  /\ selected = {}
  /\ pubs = <<>>
  /\ bulks = <<>>
  /\ clicks = 0
  /\ mounted = TRUE

\* From there: the requests answer 2xx with complete bundles, the user selects
\* and publishes.
PublishNext ==
  \/ Render
  \/ \E r \in 1..MaxJobs : processImageSettles(r, [status |-> 200, detail |-> Null])
  \/ \E r \in 1..MaxJobs : parseSettles(r, "full")
  \/ \E id \in 1..MaxJobs : toggleSelect(id)
  \/ selectAll
  \/ \E id \in 1..MaxJobs : onPublish(id)
  \/ \E p \in DOMAIN pubs, ok \in BOOLEAN : onPublishSettles(p, ok)
  \/ bulkPublishDrafts
  \/ \E b \in DOMAIN bulks, c \in BOOLEAN : etsyConnectedSettles(b, c)
  \/ \E p \in DOMAIN pubs, ok \in BOOLEAN : bulkItemSettles(p, ok)

\* The scheduling the runtime provides: React renders the pending updates of
\* a mounted page, and every connection check and publish call returns.
LiveSpec ==
  /\ StartedInit /\ [][PublishNext]_vars
  /\ WF_vars(Render)
  /\ WF_vars(\E p \in DOMAIN pubs, ok \in BOOLEAN : onPublishSettles(p, ok))
  /\ WF_vars(\E b \in DOMAIN bulks, c \in BOOLEAN : etsyConnectedSettles(b, c))
  /\ WF_vars(\E p \in DOMAIN pubs, ok \in BOOLEAN : bulkItemSettles(p, ok))

\* A drop of MaxBurst files, started: CONCURRENCY jobs run and the others
\* wait.  From there the requests settle and the page renders.
Burst == StartedWith(MaxBurst)
BurstInit ==
  /\ jobs = Burst.jobs
  /\ queue = Burst.queue
  /\ startingRef = Burst.ref
  /\ options = DefaultOptions
  /\ autoPublish = "off"
  /\ runs = Burst.runs
  /\ parsed = [r \in 1..MaxBurst |-> Null]
  /\ live = {}
  /\ net = Burst.net
  /\ page = PageMounted
  /\ nextId = MaxBurst + 1
  /\ extra = 0
  /\ rejected = 0
  /\ selected = {}
  /\ pubs = <<>>
  /\ bulks = <<>>
  /\ clicks = 0
  /\ mounted = TRUE

BurstNext ==
  \/ Render
  \/ \E r \in 1..MaxBurst, resp \in Responses : processImageSettles(r, resp)
  \/ \E r \in 1..MaxBurst, b \in Bundles : parseSettles(r, b)

BurstSpec == BurstInit /\ [][BurstNext]_vars

\* ================================================= single-image Page
\* results.release(), counted
pageRelease(pg, res) == IF res = 0 THEN pg ELSE [pg EXCEPT !.calls[res] = @ + 1]
PageIdle == page.mounted /\ page.effect = page.results
PageFrame == UNCHANGED <<jobs, queue, startingRef, options, autoPublish, runs, net,
                         nextId, extra, rejected, selected, pubs, bulks, clicks, mounted>>

\* ImageDropzone hands over a file
selectImage ==
  /\ PageIdle
  /\ ~page.selectedImage
  /\ page' = [page EXCEPT !.selectedImage = TRUE]
  /\ UNCHANGED <<parsed, live>>
  /\ PageFrame

\* The [results] effect: after a commit that changed results, the cleanup of
\* the previous value runs (results?.release()) and the effect is set up again.
resultsEffect ==
  /\ page.mounted
  /\ page.effect # page.results
  /\ live' = release(live, page.effect)
  /\ page' = [pageRelease(page, page.effect) EXCEPT !.effect = page.results]
  /\ UNCHANGED parsed
  /\ PageFrame

\* handleContinue up to `await processImage`
handleContinue ==
  /\ PageIdle
  /\ page.selectedImage /\ ~page.isProcessing
  /\ Len(page.req) < MaxPageRuns
  /\ live' = release(live, page.results)
  /\ page' = [pageRelease(page, page.results) EXCEPT
                !.results = 0, !.isProcessing = TRUE,
                !.req = Append(@, [pc |-> "fetch", aborted |-> FALSE, toast |-> TRUE]),
                !.abortRef = Len(page.req) + 1]
  /\ UNCHANGED parsed
  /\ PageFrame

\* finally { setIsProcessing(false); abortRef.current = null }
pageFinally(pg, r) == [pg EXCEPT !.req[r].pc = "end", !.isProcessing = FALSE, !.abortRef = 0]

pageProcessImageSettles(r, outcome) ==
  /\ r \in DOMAIN page.req
  /\ page.req[r].pc = "fetch"
  /\ outcome \in FetchOutcomes(page.req[r])
  /\ page' = IF outcome = "ok"
              THEN [page EXCEPT !.req[r].pc = "parse", !.req[r].toast = FALSE]
              ELSE pageFinally(page, r)
  /\ UNCHANGED <<parsed, live>>
  /\ PageFrame

\* parseProcessZip settles; setResults(parsed) only reaches a mounted page
pageParseSettles(r, bundle) ==
  /\ r \in DOMAIN page.req
  /\ page.req[r].pc = "parse"
  /\ bundle \in Bundles
  /\ IF bundle = "corrupt"
     THEN /\ page' = pageFinally(page, r)
          /\ UNCHANGED <<parsed, live>>
     ELSE LET out == parseProcessZip(bundle, r)
          IN /\ parsed' = [parsed EXCEPT ![r] = out]
             /\ live' = live \cup Range(out.urls)
             /\ page' = pageFinally(IF page.mounted THEN [page EXCEPT !.results = r] ELSE page, r)
  /\ PageFrame

\* The "Annuler" action of the loading toast of request r, from the point
\* where its `await abortProcess` has settled; the toast stays up until
\* processImage resolves or this action dismisses it.
pageCancel(r, answer) ==
  /\ PageIdle
  /\ r \in DOMAIN page.req
  /\ page.req[r].toast
  /\ answer \in AbortAnswers \ {"never"}
  /\ page' = [page EXCEPT !.isProcessing = FALSE,
                          !.req = [abort(@, page.abortRef) EXCEPT ![r].toast = FALSE]]
  /\ UNCHANGED <<parsed, live>>
  /\ PageFrame

\* (with neither a package nor an image it changes nothing modelled here)
handleReset ==
  /\ PageIdle
  /\ page.results # 0 \/ page.selectedImage
  /\ live' = release(live, page.results)
  /\ page' = [pageRelease(page, page.results) EXCEPT !.results = 0, !.selectedImage = FALSE]
  /\ UNCHANGED parsed
  /\ PageFrame

\* Leaving the page: the effect's cleanup runs on the current results
pageUnmount ==
  /\ PageIdle
  /\ live' = release(live, page.results)
  /\ page' = [pageRelease(page, page.results) EXCEPT !.mounted = FALSE]
  /\ UNCHANGED parsed
  /\ PageFrame

PageNext ==
  \/ selectImage
  \/ resultsEffect
  \/ handleContinue
  \/ \E r \in 1..MaxPageRuns, o \in {"ok", "Cancelled", "Request failed", "AbortError"} :
        pageProcessImageSettles(r, o)
  \/ \E r \in 1..MaxPageRuns, b \in Bundles : pageParseSettles(r, b)
  \/ \E r \in 1..MaxPageRuns, a \in AbortAnswers : pageCancel(r, a)
  \/ handleReset
  \/ pageUnmount

PageSpec == Init /\ [][PageNext]_vars

\* ================================================================ claims
Status(js, id) == JobOf(js, id).status
QueuedIds(js) == LET q == SelectSeq(js, IsQueued) IN [i \in DOMAIN q |-> q[i].id]
IsRender == queue # <<>> /\ queue' = <<>>

C2_CompletionAdmitsOldestQueued ==
  [][ (IsRender /\ QueuedIds(jobs) # <<>>
         /\ \E i \in DOMAIN jobs : jobs[i].status = "running" /\ jobs'[i].status \in Terminal)
      => Status(jobs', Head(QueuedIds(jobs))) = "running" ]_vars

C4_CancelRunningIsLocal ==
  [][ /\ \A id \in Ids(jobs), a \in AbortAnswers :
           (Status(jobs, id) = "running" /\ cancelJob(id, a)) =>
             /\ id \in Ids(jobs') /\ Status(jobs', id) = "cancelled"
             /\ runs'[JobOf(jobs, id).controller].aborted
             /\ runs'[JobOf(jobs, id).es].es = "closed"
             /\ net'.abort = net.abort + 1
      /\ \A id \in Ids(jobs) \cap Ids(jobs') :
           Status(jobs, id) = "cancelled" => Status(jobs', id) # "running" ]_vars

\* C4 witness: a job cancelled while its request is still in flight.
C4_CancelledInFlight ==
  \E i \in DOMAIN jobs :
    /\ jobs[i].status = "cancelled" /\ jobs[i].rid # 0
    /\ runs[jobs[i].rid].pc = "fetch"
    /\ runs[jobs[i].rid].aborted /\ runs[jobs[i].rid].es = "closed"
    /\ net.abort = 1

\* C5 (as claimed): once a job is cancelled it stays cancelled, with no result
\* and no error, whatever its processing request does afterwards.
C5_CancelledStaysCancelled ==
  [][ \A id \in Ids(jobs) \cap Ids(jobs') :
        Status(jobs, id) = "cancelled" =>
          /\ Status(jobs', id) = "cancelled"
          /\ JobOf(jobs', id).result = 0
          /\ JobOf(jobs', id).error = Null ]_vars

\* C6: addFiles creates one queued job for every file whose type is jpeg, png
\* or webp and whose size is at most 15 MiB (15 MiB itself included), in list
\* order, reports every other file as rejected and changes nothing else of the
\* registry.
Acceptable(f) ==
  f.type \in {"image/jpeg", "image/png", "image/webp"} /\ f.size <= 15 * 1024 * 1024
C6_InvalidFilesChangeNothing ==
  [][ \A list \in FileLists :
        addFiles(list) =>
          LET ok == SelectSeq(list, Acceptable) IN
          /\ Len(jobs') = Len(jobs) + Len(ok)
          /\ \A i \in DOMAIN jobs : jobs'[i] = jobs[i]
          /\ \A i \in DOMAIN ok : /\ jobs'[Len(jobs) + i].file = ok[i]
                                  /\ jobs'[Len(jobs) + i].status = "queued"
          /\ rejected' = rejected + (Len(list) - Len(ok))
          /\ NumRunning(jobs') = NumRunning(jobs) ]_vars

\* C6 witness: a list with a 15 MiB png and a rejected file: one job, one error.
C6_BoundaryAcceptedOtherRejected ==
  /\ rejected = 1
  /\ Len(jobs) = 1
  /\ jobs[1].file.size = 15728640
  /\ nextId = 2

C8_DoneJobHasAllStepsDone ==
  \A i \in DOMAIN jobs :
    jobs[i].status = "done" =>
      \A k \in Range(jobs[i].stepOrder) : jobs[i].stepStatus[k] = "done"

\* C9 (as claimed): a job whose bundle lacks the primary image never becomes
\* done (it becomes error): every done job's result has its processed image.
C9_DoneJobHasPrimaryImage ==
  \A i \in DOMAIN jobs :
    (jobs[i].status = "done" /\ jobs[i].result # 0) =>
      parsed[jobs[i].result].processedImageUrl

\* C10: release() is idempotent.  A call of release() on a package leaves none
\* of the object URLs its parse created in the blob URL store, and a call on
\* a package that was released before changes nothing in the store.
Urls(res) == Range(parsed[res].urls)
C10_ReleaseIdempotent ==
  [][ \A res \in 1..MaxPageRuns :
        page'.calls[res] > page.calls[res] =>
          /\ Urls(res) \cap live' = {}
          /\ page.calls[res] >= 1 => live' = live ]_vars

\* C10 witness: a package with URLs was released by handleReset (or
\* handleContinue) and again by the effect cleanup; none of its URLs is left.
C10_ReleasedTwice ==
  \E res \in 1..MaxPageRuns :
    /\ page.calls[res] >= 2
    /\ Cardinality(Urls(res)) = 2
    /\ Urls(res) \cap live = {}

\* C11 (as claimed): publishing is single-flight per job: at no time are two
\* publish calls (from onPublish, bulkPublishDrafts or auto-publish) in flight
\* for the same job.
InFlight(id) ==
  Cardinality({ p \in DOMAIN pubs : pubs[p].id = id /\ pubs[p].pc = "call" })
    + Cardinality({ r \in DOMAIN runs : runs[r].id = id /\ runs[r].pc = "publish" })
C11_PublishSingleFlight == \A id \in 1..MaxJobs : InFlight(id) <= 1

\* C12 (as claimed): every bulkPublishDrafts call over M publishable jobs ends
\* with ok + ko = M.
C12_BatchCountsEveryJob ==
  \A b \in DOMAIN bulks :
    bulks[b].pc \in {"end", "refused"} => bulks[b].ok + bulks[b].ko = Len(bulks[b].items)

\* C12 (amended): a bulkPublishDrafts call whose connection check answers
\* "not connected" returns having published nothing and counted nothing.
\* Otherwise it makes exactly one publish call per job that was selected and
\* had a result when the button was pressed, ok is the number of those calls
\* that resolved and ko the number that rejected, and when it ends
\* ok + ko = M, whatever the outcomes and the order in which they arrive.
CallsOf(b) == { p \in DOMAIN pubs : pubs[p].b = b }
C12_BatchCountsAfterAuth ==
  \A b \in DOMAIN bulks :
    LET bk == bulks[b]
        M == Len(bk.items)
    IN /\ bk.pc \in {"auth", "refused"} => (CallsOf(b) = {} /\ bk.ok = 0 /\ bk.ko = 0)
       /\ bk.pc \in {"run", "end"} =>
            /\ \A i \in 1..M :
                 Cardinality({ p \in CallsOf(b) : pubs[p].id = bk.items[i].id }) = 1
            /\ Cardinality(CallsOf(b)) = M
            /\ bk.ok = Cardinality({ p \in CallsOf(b) : pubs[p].pc = "ok" })
            /\ bk.ko = Cardinality({ p \in CallsOf(b) : pubs[p].pc = "ko" })
       /\ bk.pc = "run" => \E p \in CallsOf(b) : pubs[p].pc = "call"
       /\ bk.pc = "end" => bk.ok + bk.ko = M

\* C12 witness: a batch over two jobs ended with one success and one failure.
C12_MixedBatchEnded ==
  \E b \in DOMAIN bulks :
    /\ bulks[b].pc = "end"
    /\ Len(bulks[b].items) = 2
    /\ bulks[b].ok = 1 /\ bulks[b].ko = 1

\* C13 (as claimed): a publish transition of job J changes only J.publish.
\* onPublish changes nothing but the publish state of its job; a render that
\* applies only publish updates leaves every other field of every job as it
\* was, and changes the publish state of a job only if one of the updates
\* belongs to a publish call for that job.
PublishTarget(u, id) ==
  \/ u.op = "publish" /\ u.id = id
  \/ u.op = "bulkpending" /\ \E i \in DOMAIN bulks[u.b].items : bulks[u.b].items[i].id = id
C13_PublishTouchesOnlyItsJob ==
  [][ /\ \A id \in 1..MaxJobs :
           onPublish(id) =>
             /\ Len(jobs') = Len(jobs)
             /\ \A i \in DOMAIN jobs :
                  jobs'[i] = IF jobs[i].id = id THEN [jobs[i] EXCEPT !.publish = "pending"]
                             ELSE jobs[i]
      /\ (IsRender /\ \A k \in DOMAIN queue : queue[k].op \in {"publish", "bulkpending"}) =>
           /\ Len(jobs') = Len(jobs)
           /\ \A i \in DOMAIN jobs :
                /\ jobs'[i] = [jobs[i] EXCEPT !.publish = jobs'[i].publish]
                /\ jobs'[i].publish # jobs[i].publish =>
                     \E k \in DOMAIN queue : PublishTarget(queue[k], jobs[i].id) ]_vars

\* C14: the progress stream never decides a job's status.  A stream event or
\* a transport failure changes no job, moves no request and enqueues nothing
\* but a step update; a render changes a job's status only through an update
\* the start of the job or the outcome of its own request enqueued; a done
\* job's own request has succeeded and an error job's own request has ended.
StreamStep ==
  \E r \in 1..MaxJobs :
    \/ onDone(r)
    \/ onError(r)
    \/ \E k \in StepNames, v \in StepStates : onStep(r, k, v)
Failed(r) ==
  /\ runs[r].pc # "end" /\ runs'[r].pc = "end"
  /\ runs'[r].err # Null /\ ~IsCancellation(runs'[r].err)
C15_ErrorAttributedToOwner ==
  [][ /\ \A r \in DOMAIN runs :
           Failed(r) =>
             /\ jobs' = jobs
             /\ queue' = queue \o << [op |-> "error", id |-> runs[r].id, msg |-> runs'[r].err],
                                     [op |-> "sched", env |-> runs[r].env, by |-> r] >>
      /\ IsRender =>
           \A i \in DOMAIN jobs :
             (\A k \in DOMAIN queue :
                queue[k].op \in {"sched", "bulkpending"} \/ queue[k].id # jobs[i].id) =>
               /\ jobs'[i].error = jobs[i].error
               /\ jobs'[i].result = jobs[i].result
               /\ \/ jobs'[i].status = jobs[i].status
                  \/ jobs[i].status = "queued" /\ jobs'[i].status = "running"
      /\ \A i \in DOMAIN jobs' :
           jobs'[i].status = "error" =>
             /\ jobs'[i].rid # 0
             /\ runs'[jobs'[i].rid].id = jobs'[i].id
             /\ runs'[jobs'[i].rid].err = jobs'[i].error
             /\ ~IsCancellation(jobs'[i].error) ]_vars

\* C15 witness: J1's request failed; J2 and J3 are still running and J4 was
\* admitted into the freed slot.
C15_OneFailedOthersRunning ==
  /\ Len(jobs) = 4
  /\ jobs[1].status = "error" /\ jobs[1].error = "Request failed"
  /\ \A i \in 2..4 : jobs[i].status = "running" /\ jobs[i].error = Null /\ jobs[i].result = 0

\* C16: admission is FIFO in submission order.  The job list is in submission
\* order, so: no job that has left queued stands behind a job that is still
\* queued, and a step that makes a job running leaves no earlier job queued.
C16_AdmissionIsFifo ==
  [][ /\ \A i, k \in DOMAIN jobs' :
           i < k => ~(jobs'[i].status = "queued" /\ jobs'[k].status # "queued")
      /\ \A k \in DOMAIN jobs :
           \A k2 \in DOMAIN jobs' :
             (jobs'[k2].id = jobs[k].id /\ jobs[k].status = "queued"
                /\ jobs'[k2].status = "running") =>
               \A i2 \in 1..(k2 - 1) : jobs'[i2].status # "queued" ]_vars

\* C16 witness: more jobs were queued than slots were free: J1, J2 and J3 were
\* admitted (J1's request has answered already), J4, submitted last, waits.
C16_LaterJobWaits ==
  /\ Len(jobs) = 4
  /\ \A i \in 1..3 : jobs[i].status = "running"
  /\ jobs[4].status = "queued"
  /\ runs[1].pc = "parse"
  /\ \A r \in 2..3 : runs[r].pc = "fetch"
  /\ Len(runs) = 3

\* C17 (as claimed): a job's status only moves forward along
\* queued -> running -> {done, error, cancelled}: every change of status is
\* queued -> running or running -> terminal, and a terminal status never
\* changes again.
C17_StatusMovesForward ==
  [][ \A i \in DOMAIN jobs, k \in DOMAIN jobs' :
        (jobs'[k].id = jobs[i].id /\ jobs'[k].status # jobs[i].status) =>
          \/ jobs[i].status = "queued" /\ jobs'[k].status = "running"
          \/ jobs[i].status = "running" /\ jobs'[k].status \in Terminal ]_vars

\* C18 (as claimed): resetAll aborts every running job (abort call issued,
\* subscription closed, request aborted) and empties the job list, the
\* in-start guard set and the selection; afterwards the continuation of a
\* request started before the reset changes no job and starts no processing
\* request: it leaves the job list alone, and a render whose admission
\* recomputations all come from such continuations starts nothing.
Resetting == \E a \in AbortAnswers : resetAll(a)
C18_ResetIsFinal ==
  [][ /\ Resetting =>
           /\ jobs' = <<>> /\ startingRef' = {} /\ selected' = {}
           /\ \A i \in DOMAIN jobs :
                (jobs[i].status = "running" /\ jobs[i].rid # 0) =>
                  /\ runs'[jobs[i].rid].aborted
                  /\ runs'[jobs[i].rid].es # "open"
           /\ net'.abort = net.abort
                + Cardinality({ i \in DOMAIN jobs : jobs[i].status = "running" /\ jobs[i].rid # 0 })
      /\ \A r \in DOMAIN runs :
           (runs[r].gone /\ runs'[r].pc # runs[r].pc) =>
             (jobs' = jobs /\ net'.process = net.process)
      /\ (IsRender /\ \A k \in DOMAIN queue :
                        /\ queue[k].op # "bulkpending"
                        /\ IF queue[k].op = "sched" THEN runs[queue[k].by].gone
                           ELSE \E r \in DOMAIN runs : runs[r].id = queue[k].id /\ runs[r].gone) =>
           (jobs' = jobs /\ net'.process = net.process /\ Len(runs') = Len(runs)) ]_vars

\* C19 (as claimed): no result of a successful parse is left unreleased, also
\* when the parse completes after its job was removed or cancelled or after
\* resetAll: whenever a successfully parsed package still has object URLs
\* in the blob URL store, the page is mounted and a job of the list has the
\* id the parse ran for, so that removeJob, resetAll or the unmount cleanup
\* can still reach the package and release it.
ParseSucceeded(r) == runs[r].pc \in {"publish", "end"} /\ runs[r].err = Null
C19_NoResultLeftUnreleased ==
  \A r \in DOMAIN runs :
    (ParseSucceeded(r) /\ Urls(r) \cap live # {}) =>
      /\ mounted
      /\ \E i \in DOMAIN jobs : jobs[i].id = runs[r].id

\* C20 (as claimed): no progress subscription stays open once its job is
\* terminal or removed: every open subscription belongs to a job that is in
\* the list and whose status is not terminal.
C20_NoSubscriptionOpenAfterJobEnds ==
  \A r \in DOMAIN runs :
    runs[r].es = "open" =>
      \E i \in DOMAIN jobs :
        jobs[i].id = runs[r].id /\ jobs[i].status \notin Terminal

\* C21 (as claimed): the key set of a job's stepStatus equals its stepOrder in
\* every state; a step event naming a key that is not in stepOrder adds no
\* entry.
C21_StepStatusKeysAreStepOrder ==
  \A i \in DOMAIN jobs : DOMAIN jobs[i].stepStatus = Range(jobs[i].stepOrder)

\* C22: a job has a request id exactly when it has left queued.  After every
\* step a job is queued iff it has no request id and no two jobs share a
\* request id; a job gets its request id in the step that takes it from
\* queued to running, the id is one no job of the list had, and once set it
\* never changes, whatever the job's status becomes.
C22_RequestIdIffStarted ==
  [][ /\ \A k \in DOMAIN jobs' : (jobs'[k].status = "queued") <=> (jobs'[k].rid = 0)
      /\ \A k, l \in DOMAIN jobs' :
           (k # l /\ jobs'[k].rid # 0) => jobs'[k].rid # jobs'[l].rid
      /\ \A i \in DOMAIN jobs, k \in DOMAIN jobs' :
           jobs'[k].id = jobs[i].id =>
             IF jobs[i].rid = 0
             THEN jobs'[k].rid # 0 =>
                    /\ jobs[i].status = "queued" /\ jobs'[k].status = "running"
                    /\ \A l \in DOMAIN jobs : jobs[l].rid # jobs'[k].rid
             ELSE jobs'[k].rid = jobs[i].rid ]_vars

\* C22 witness: a done job and a cancelled job that kept their (distinct)
\* request ids, next to a queued job that has none.
C22_StartedKeepTheirIdQueuedHasNone ==
  \E i, k, l \in DOMAIN jobs :
    /\ jobs[i].status = "done" /\ jobs[i].rid # 0
    /\ jobs[k].status = "cancelled" /\ jobs[k].rid # 0 /\ jobs[k].rid # jobs[i].rid
    /\ jobs[l].status = "queued" /\ jobs[l].rid = 0

\* C23: in every state a job has a result only if its status is done, and an
\* error message only if its status is error.
C23_ResultOnlyDoneErrorOnlyError ==
  \A i \in DOMAIN jobs :
    /\ jobs[i].result # 0 => jobs[i].status = "done"
    /\ jobs[i].error # Null => jobs[i].status = "error"

\* C23 witness: a done job holding its result next to a failed job holding
\* its error message, neither holding the other field.
C23_DoneWithResultErrorWithMessage ==
  \E i, k \in DOMAIN jobs :
    /\ jobs[i].status = "done" /\ jobs[i].result # 0 /\ jobs[i].error = Null
    /\ jobs[k].status = "error" /\ jobs[k].error # Null /\ jobs[k].result = 0

\* C24 (as claimed): the processing request issued for a job carries the
\* options the job was submitted with: the optional stages the request asks
\* for (mockups, video, texts) are those of the job's stepOrder.
C24_RequestMatchesStepOrder ==
  \A r \in DOMAIN runs, i \in DOMAIN jobs :
    jobs[i].id = runs[r].id => computeSteps(runs[r].env.options) = jobs[i].stepOrder

\* C25 (as claimed): when the processing request fails for a reason other
\* than cancellation the job's error is the failure message of the request:
\* for a non-2xx, non-499 answer whose body carries a detail string, the
\* error recorded for the job is that detail.
C25_ErrorIsDetailWhenReadable ==
  \A i \in DOMAIN jobs :
    (jobs[i].status = "error" /\ jobs[i].rid # 0 /\ runs[jobs[i].rid].resp.detail # Null) =>
      jobs[i].error = runs[jobs[i].rid].resp.detail

\* C26: each job is started at most once.  Whatever startQueued calls,
\* scheduleNext recomputations and completions have happened, no job id has
\* more than one startJob run (one request id, one progress subscription,
\* one processing request), and no more subscriptions or processing requests
\* were opened than jobs were submitted.
RunsOf(id) == { r \in DOMAIN runs : runs[r].id = id }
C26_StartedAtMostOnce ==
  /\ \A id \in 1..MaxJobs : Cardinality(RunsOf(id)) <= 1
  /\ net.process <= nextId - 1
  /\ net.stream <= nextId - 1

\* C26 witness: four jobs were submitted and all were started; two of them
\* have completed, so the admission was recomputed after completions as well,
\* and there are exactly four runs and four processing requests.
C26_AllStartedOnceAfterCompletions ==
  /\ Len(jobs) = 4
  /\ \A id \in 1..4 : Cardinality(RunsOf(id)) = 1
  /\ Cardinality({ r \in DOMAIN runs : runs[r].pc = "end" }) >= 2
  /\ \E i \in DOMAIN jobs : jobs[i].status = "running"
  /\ net.process = 4
  /\ queue = <<>>

\* C27 (as claimed): every job whose publish status becomes pending
\* eventually has publish status done or error (or has left the list, or the
\* page was left), given that every publish call returns and pending updates
\* are rendered.
PublishPending(id) ==
  \E i \in DOMAIN jobs : jobs[i].id = id /\ jobs[i].publish = "pending"
PublishSettled(id) ==
  \/ ~mounted
  \/ \A i \in DOMAIN jobs : jobs[i].id = id => jobs[i].publish \in {"done", "error"}
C27_PendingPublishSettles ==
  \A id \in 1..MaxPubJobs : PublishPending(id) ~> PublishSettled(id)

\* C28 (as claimed): an external publish call (auto-publish, single or bulk)
\* is only issued for a job that is in the list with status done at that
\* moment (the updates the handler has just made counted as applied), and
\* never for a job that was cancelled, removed or reset before its processing
\* result was handled.
PublishIssued(id) ==
  \/ \E r \in DOMAIN runs :
       runs[r].id = id /\ runs[r].pc # "publish" /\ runs'[r].pc = "publish"
  \/ \E p \in DOMAIN pubs' \ DOMAIN pubs : pubs'[p].id = id
LatestJobs ==
  Flush([jobs |-> jobs', queue |-> queue', ref |-> startingRef', runs |-> runs', net |-> net']).jobs
C28_PublishOnlyForDoneJobs ==
  [][ \A id \in 1..MaxJobs :
        PublishIssued(id) =>
          /\ \E i \in DOMAIN jobs : jobs[i].id = id /\ jobs[i].status # "cancelled"
          /\ \E k \in DOMAIN LatestJobs :
               LatestJobs[k].id = id /\ LatestJobs[k].status = "done" ]_vars

\* C29 (as claimed): when two running jobs complete together while
\* CONCURRENCY jobs run and at least two jobs are queued, the render that
\* handles both completions refills both freed slots: CONCURRENCY jobs are
\* running again afterwards.
Completing ==
  { id \in Ids(jobs) :
      /\ JobOf(jobs, id).status = "running"
      /\ \E k \in DOMAIN queue :
           /\ queue[k].op \in {"done", "error", "status"}
           /\ queue[k].id = id
           /\ queue[k].op = "status" => queue[k].v = "cancelled" }
C29_BothFreedSlotsRefilled ==
  [][ ( /\ IsRender
        /\ Cardinality(Completing) = 2
        /\ NumRunning(jobs) = CONCURRENCY
        /\ Len(SelectSeq(jobs, IsQueued)) >= 2 ) =>
      NumRunning(jobs') = CONCURRENCY ]_vars

\* C30 (as claimed): whenever no handler is running and no update waits for a
\* render, the in-start guard set holds exactly the ids of the jobs whose
\* status is running, also while an auto-publish is in flight.
RunningIds == { jobs[i].id : i \in { k \in DOMAIN jobs : jobs[k].status = "running" } }
C30_GuardSetIsRunningSet ==
  (mounted /\ queue = <<>>) => startingRef = RunningIds

====
